---- MODULE Spec2Model ----
(***************************************************************************)
(* Pyro5 serializers: the class conversion registries, the reconstruction  *)
(* engine (class_to_dict / dict_to_class), the format adapters (marshal,   *)
(* JSON, msgpack), the msgpack extension codec and the compression wrapper *)
(* of src/Pyro5/serializers.py.                                            *)
(*                                                                         *)
(* Python text is a sequence of symbols: "." and "__" are symbols of their *)
(* own and "Error" is the only symbol ending in "Error", so startswith,    *)
(* split, endswith and the substring test are sequence operations.         *)
(* A Python value is a record tagged by k; a raised exception is the       *)
(* outcome [st |-> "raise", exc |-> <kind>].                               *)
(***************************************************************************)
EXTENDS Integers, Sequences, FiniteSets, TLC

VARIABLES c2d,      \* SerializerBase.__custom_class_to_dict_registry (insertion ordered)
          d2c,      \* SerializerBase.__custom_dict_to_class_registry
          serpent,  \* whether the serpent adapter is in _serializers_by_id, and serpent's own class registry
          call,     \* the last completed operation: its name, inputs and outcome
          rd,       \* the reading thread: its program counter and locals
          wlog      \* registry writes committed while the current read is in flight

vars == <<c2d, d2c, serpent, call, rd, wlog>>

---------------------------------------------------------------------------
(* Bounds *)

MaxDepth == 1       \* container nesting added around a leaf value
MaxWrites == 2      \* registry writes interleaved with one in-flight read
MaxSlack == 1       \* how far past the compression threshold the message lengths go
MaxMicro == 7       \* the largest microsecond field of the timestamps encoded

---------------------------------------------------------------------------
(* Outcomes. Every record of this module lists its fields in the order in  *)
(* which TLC stores them: the order in which the names first occur here.    *)

Ok(v) == [st |-> "ok", val |-> v]
Raise(e) == [st |-> "raise", exc |-> e]
IsOk(r) == r.st = "ok"
\* the next step of a computation runs on the value of the step before it, an error ends it
Then(r, F(_)) == IF IsOk(r) THEN F(r.val) ELSE r

---------------------------------------------------------------------------
(* Text *)

Dot == "."
Dunder == "__"

StartsWith(s, p) == Len(s) >= Len(p) /\ SubSeq(s, 1, Len(p)) = p
Contains(s, sym) == \E i \in 1..Len(s) : s[i] = sym
EndsWith(s, sym) == Len(s) > 0 /\ s[Len(s)] = sym
FirstDot(s) == IF Contains(s, Dot) THEN CHOOSE i \in 1..Len(s) : s[i] = Dot /\ \A j \in 1..(i-1) : s[j] # Dot ELSE 0
SecondDot(s) == IF \E i \in (FirstDot(s)+1)..Len(s) : FirstDot(s) # 0 /\ s[i] = Dot THEN CHOOSE i \in (FirstDot(s)+1)..Len(s) : s[i] = Dot /\ \A j \in (FirstDot(s)+1)..(i-1) : s[j] # Dot ELSE 0
\* s.split('.', 2)[2], for a text with at least two dots
Split2Rest(s) == SubSeq(s, SecondDot(s) + 1, Len(s))
\* s.split('.', 1): one part when there is no dot, else the text before and after the first dot
Split1(s) == IF FirstDot(s) = 0 THEN <<s>> ELSE <<SubSeq(s, 1, FirstDot(s) - 1), SubSeq(s, FirstDot(s) + 1, Len(s))>>

---------------------------------------------------------------------------
(* Python values *)

PyNone == [k |-> "none"]
PyBool(b) == [k |-> "bool", b |-> b]
PyInt(neg, digits) == [k |-> "int", neg |-> neg, digits |-> digits]
PyStr(s) == [s |-> s, k |-> "str"]
PyBytes(b) == [k |-> "bytes", by |-> b]
PyList(xs) == [k |-> "list", items |-> xs]
PyTuple(xs) == [k |-> "tuple", items |-> xs]
PySet(S) == [k |-> "set", elems |-> S]
PyDict(f) == [k |-> "dict", d |-> f]
PyFloat(lit) == [k |-> "float", lit |-> lit]
\* an instance of a class: args is BaseException.args, attrs the instance attributes
PyObj(cls, args, attrs) == [k |-> "obj", cls |-> cls, args |-> args, attrs |-> attrs]

KS(sym) == PyStr(<<sym>>)
K_class == PyStr(<<Dunder, "class", Dunder>>)
K_exception == PyStr(<<Dunder, "exception", Dunder>>)
K_args == KS("args")
K_attributes == KS("attributes")
K_state == KS("state")
K_val == KS("val")
K_daemon == KS("_pyroDaemon")
Unknown == <<"<unknown>">>

EmptyMap == [x \in {} |-> PyNone]
Small(n) == PyInt(FALSE, <<n>>)
LiveDaemon == [k |-> "daemon"]

DictGet(dv, key, default) == IF key \in DOMAIN dv.d THEN dv.d[key] ELSE default
DictSet(f, key, v) == [x \in DOMAIN f \cup {key} |-> IF x = key THEN v ELSE f[x]]

---------------------------------------------------------------------------
(* Types: the classes of the running program that the registries and the   *)
(* reconstruction engine can meet.                                         *)

TInfo(mod, name, bases, hasdict, hasslots, getstate) == [mod |-> mod, name |-> name, bases |-> bases, hasdict |-> hasdict, hasslots |-> hasslots, getstate |-> getstate]
Plain(name) == TInfo(<<"builtins">>, <<name>>, {"object"}, FALSE, FALSE, "none")
ExcBases == {"object", "BaseException", "Exception"}

TypeTable ==
    [t \in {"object", "list", "tuple", "set", "dict", "int", "str", "bytes", "bool", "NoneType", "float", "complex", "date", "daemon", "ExtType"} |-> Plain(t)]
    @@ ("datetime" :> TInfo(<<"datetime">>, <<"datetime">>, {"object", "date"}, FALSE, FALSE, "none"))
    @@ [t \in {"URI", "Proxy", "Daemon"} |-> TInfo(<<"Pyro5", Dot, "core">>, <<t>>, {"object"}, TRUE, FALSE, "dict")]
    @@ [t \in {"SerpentSerializer", "MarshalSerializer", "JsonSerializer", "MsgpackSerializer"} |-> TInfo(<<"Pyro5", Dot, "serializers">>, <<t>>, {"object"}, TRUE, FALSE, "none")]
    @@ ("Thing" :> TInfo(<<"app">>, <<"Thing">>, {"object"}, TRUE, FALSE, "none"))
    @@ ("SubThing" :> TInfo(<<"app">>, <<"SubThing">>, {"object", "Thing"}, TRUE, FALSE, "none"))
    @@ ("MainThing" :> TInfo(<<Dunder, "main", Dunder>>, <<"Thing">>, {"object"}, TRUE, FALSE, "none"))
    @@ ("Slotted" :> TInfo(<<"app">>, <<"Slotted">>, {"object"}, FALSE, TRUE, "none"))
    @@ ("Stateful" :> TInfo(<<"app">>, <<"Stateful">>, {"object"}, TRUE, FALSE, "dict"))
    @@ ("OddState" :> TInfo(<<"app">>, <<"OddState">>, {"object"}, TRUE, FALSE, "other"))
    @@ ("_ExceptionWrapper" :> TInfo(<<"Pyro5", Dot, "core">>, <<"_ExceptionWrapper">>, {"object"}, TRUE, FALSE, "none"))
    @@ ("Opaque" :> TInfo(<<"app">>, <<"Opaque">>, {"object"}, FALSE, FALSE, "none"))
    @@ ("BaseException" :> TInfo(<<"builtins">>, <<"BaseException">>, {"object"}, TRUE, FALSE, "none"))
    @@ ("Exception" :> TInfo(<<"builtins">>, <<"Exception">>, {"object", "BaseException"}, TRUE, FALSE, "none"))
    @@ ("ValueError" :> TInfo(<<"builtins">>, <<"Value", "Error">>, ExcBases, TRUE, FALSE, "none"))
    @@ ("TimeoutError" :> TInfo(<<"builtins">>, <<"Timeout", "Error">>, ExcBases, TRUE, FALSE, "none"))
    @@ ("PyroError" :> TInfo(<<"Pyro5", Dot, "errors">>, <<"Pyro", "Error">>, ExcBases, TRUE, FALSE, "none"))
    @@ ("ProtocolError" :> TInfo(<<"Pyro5", Dot, "errors">>, <<"Protocol", "Error">>, ExcBases \cup {"PyroError"}, TRUE, FALSE, "none"))
    @@ ("PyroTimeoutError" :> TInfo(<<"Pyro5", Dot, "errors">>, <<"Timeout", "Error">>, ExcBases \cup {"PyroError"}, TRUE, FALSE, "none"))
    @@ ("OperationalError" :> TInfo(<<"sqlite3">>, <<"Operational", "Error">>, ExcBases, TRUE, FALSE, "none"))
    @@ ("AppError" :> TInfo(<<"app">>, <<"App", "Error">>, ExcBases, TRUE, FALSE, "none"))

TypeOf(v) ==
    CASE v.k = "obj" -> v.cls
      [] v.k = "none" -> "NoneType"
      [] v.k = "ext" -> "ExtType"
      [] OTHER -> v.k

Mro(t) == {t} \cup TypeTable[t].bases
IsInstance(v, clazz) == clazz \in Mro(TypeOf(v))
IsSubclass(t, clazz) == clazz \in Mro(t)
\* obj.__class__.__module__ + "." + obj.__class__.__name__
QualName(t) == TypeTable[t].mod \o <<Dot>> \o TypeTable[t].name
Attrs(v) == IF v.k = "obj" THEN v.attrs ELSE EmptyMap
HasAttr(v, key) == key \in DOMAIN Attrs(v)

\* vars(errors): Pyro5/errors.py defines exception classes only, all under PyroError
ErrorsModule == {"PyroError", "ProtocolError", "PyroTimeoutError"}
\* vars(builtins): exception classes, other classes, and callables that are no class
BuiltinClasses == {"BaseException", "Exception", "ValueError", "TimeoutError", "int", "object"}
BuiltinFunctions == {<<"len">>}
Sqlite3Classes == {"OperationalError"}

HasModuleAttr(types, name) == \E t \in types : TypeTable[t].name = name
ModuleAttr(types, name) == CHOOSE t \in types : TypeTable[t].name = name

\* all_exceptions: the builtin exception classes by short name, then the
\* framework's error classes, which replace a builtin of the same short name
AllExceptionTypes(name) ==
    LET fromErrors == {t \in ErrorsModule : IsSubclass(t, "PyroError") /\ TypeTable[t].name = name}
        fromBuiltins == {t \in BuiltinClasses : IsSubclass(t, "BaseException") /\ TypeTable[t].name = name}
    IN  IF fromErrors # {} THEN fromErrors ELSE fromBuiltins
InAllExceptions(name) == AllExceptionTypes(name) # {}
AllExceptions(name) == CHOOSE t \in AllExceptionTypes(name) : TRUE

---------------------------------------------------------------------------
(* The class conversion registries *)

\* The converters an application registers. Outbound: thing_to_dict emits the
\* tagged record of a Thing, main_to_dict the same under the "__main__.Thing"
\* name, vars_to_dict copies every instance attribute (vars(obj), a TypeError
\* for an object without __dict__), type_to_dict names the type of any object.
C2DConverters == {"thing_to_dict", "main_to_dict", "vars_to_dict", "type_to_dict"}
ApplyC2D(conv, obj) ==
    CASE conv = "thing_to_dict" ->
            IF HasAttr(obj, K_val) THEN Ok(PyDict((K_class :> PyStr(QualName("Thing"))) @@ (K_val :> obj.attrs[K_val]))) ELSE Raise("AttributeError")
      [] conv = "main_to_dict" ->
            IF HasAttr(obj, K_val) THEN Ok(PyDict((K_class :> PyStr(QualName("MainThing"))) @@ (K_val :> obj.attrs[K_val]))) ELSE Raise("AttributeError")
      [] conv = "type_to_dict" -> Ok(PyDict(K_class :> PyStr(QualName(TypeOf(obj)))))
      [] OTHER ->
            IF TypeTable[TypeOf(obj)].hasdict THEN Ok(PyDict(DictSet(Attrs(obj), K_class, PyStr(QualName(TypeOf(obj))))))
            ELSE Raise("TypeError")

\* Inbound: dict_to_thing rebuilds a Thing from the record's val, dict_to_main a
\* MainThing, echo returns the pair it was called with.
D2CConverters == {"dict_to_thing", "dict_to_main", "echo"}
ApplyD2C(conv, classname, data) ==
    CASE conv = "dict_to_thing" ->
            IF K_val \in DOMAIN data.d THEN Ok(PyObj("Thing", <<>>, K_val :> data.d[K_val])) ELSE Raise("KeyError")
      [] conv = "dict_to_main" ->
            IF K_val \in DOMAIN data.d THEN Ok(PyObj("MainThing", <<>>, K_val :> data.d[K_val])) ELSE Raise("KeyError")
      [] OTHER -> Ok(PyTuple(<<PyStr(classname), data>>))

\* the outbound registry is a dict in insertion order: a sequence of entries
C2DIndex(reg, clazz) == IF \E i \in 1..Len(reg) : reg[i].clazz = clazz THEN CHOOSE i \in 1..Len(reg) : reg[i].clazz = clazz ELSE 0
C2DHas(reg, clazz) == C2DIndex(reg, clazz) # 0
C2DGet(reg, clazz) == reg[C2DIndex(reg, clazz)].conv
C2DPut(reg, clazz, conv) ==
    IF C2DHas(reg, clazz) THEN [reg EXCEPT ![C2DIndex(reg, clazz)].conv = conv]
    ELSE Append(reg, [clazz |-> clazz, conv |-> conv])
C2DDel(reg, clazz) == SelectSeq(reg, LAMBDA e : e.clazz # clazz)
D2CDel(reg, classname) == [n \in DOMAIN reg \ {classname} |-> reg[n]]

---------------------------------------------------------------------------
(* class_to_dict *)

\* the first of a set of registry positions, 0 when the set is empty
FirstOf(S) == IF S = {} THEN 0 ELSE CHOOSE i \in S : \A j \in S : i <= j
FirstMatch_by_type(reg, obj) == C2DIndex(reg, TypeOf(obj))
\* for clazz in registry: if isinstance(obj, clazz): the first match in insertion order
FirstMatch(reg, obj) == FirstOf({i \in 1..Len(reg) : IsInstance(obj, reg[i].clazz)})

\* if hasattr(obj, "_pyroDaemon"): obj._pyroDaemon = None
ClearDaemon(obj) == IF HasAttr(obj, K_daemon) THEN [obj EXCEPT !.attrs[K_daemon] = PyNone] ELSE obj

ExceptionRecord(obj) ==
    PyDict((K_class :> PyStr(QualName(TypeOf(obj))))
        @@ (K_exception :> PyBool(TRUE))
        @@ (K_args :> PyTuple(obj.args))
        @@ (K_attributes :> PyDict(obj.attrs)))

\* the steps after the registry loop and the container test, on the object
\* whose daemon reference is already cleared
DefaultRecord(obj) ==
    LET info == TypeTable[TypeOf(obj)]
        tagged == PyDict(DictSet(Attrs(obj), K_class, PyStr(QualName(TypeOf(obj)))))
    IN  IF IsInstance(obj, "BaseException") THEN Ok(ExceptionRecord(obj))
        ELSE IF info.getstate = "dict" THEN Ok(PyDict(Attrs(obj)))
        ELSE IF info.hasdict THEN Ok(tagged)
        ELSE IF info.hasslots THEN Ok(tagged)
        ELSE Raise("SerializeError")

\* the outcome, and the object as the call leaves it
class_to_dict(reg, obj) ==
    LET i == FirstMatch(reg, obj) IN
    IF i # 0 THEN [obj |-> obj, out |-> ApplyC2D(reg[i].conv, obj)]
    ELSE IF TypeOf(obj) \in {"set", "dict", "tuple", "list"} THEN [obj |-> obj, out |-> Raise("ValueError")]
    ELSE [obj |-> ClearDaemon(obj), out |-> DefaultRecord(ClearDaemon(obj))]

---------------------------------------------------------------------------
(* dict_to_class *)

Truthy(v) ==
    CASE v.k = "bool" -> v.b
      [] v.k = "none" -> FALSE
      [] v.k \in {"list", "tuple"} -> Len(v.items) > 0
      [] OTHER -> TRUE

make_exception_without_attributes(exceptiontype, data) ==
    IF K_args \notin DOMAIN data.d THEN Raise("KeyError")
    ELSE IF data.d[K_args].k \notin {"list", "tuple"} THEN Raise("TypeError")
    ELSE Ok(PyObj(exceptiontype, data.d[K_args].items, EmptyMap))

\* ex = exceptiontype(*data["args"]), then setattr for every entry of data["attributes"]
make_exception(exceptiontype, data) ==
    IF K_args \notin DOMAIN data.d THEN Raise("KeyError")
    ELSE IF data.d[K_args].k \notin {"list", "tuple"} THEN Raise("TypeError")
    ELSE IF K_attributes \notin DOMAIN data.d THEN Ok(PyObj(exceptiontype, data.d[K_args].items, EmptyMap))
    ELSE IF data.d[K_attributes].k # "dict" THEN Raise("AttributeError")
    ELSE Ok(PyObj(exceptiontype, data.d[K_args].items, data.d[K_attributes].d))

\* cls.__new__(cls), then __setstate_from_dict__(data["state"])
SetStateFromDict(cls, data) ==
    IF K_state \in DOMAIN data.d THEN Ok(PyObj(cls, <<>>, K_state :> data.d[K_state])) ELSE Raise("KeyError")

CorePrefix == <<"Pyro5", Dot, "core", Dot>>
UtilPrefix == <<"Pyro5", Dot, "util", Dot>>
ErrorsPrefix == <<"Pyro5", Dot, "errors", Dot>>
CoreTypes == {"URI", "Proxy", "Daemon"}
UtilTypes == {"SerpentSerializer", "MarshalSerializer", "JsonSerializer", "MsgpackSerializer"}
Unsupported == Raise("SerializeError")

\* data.get("__class__", "<unknown>"), decoded when it is bytes
ClassNameOf(data) ==
    LET raw == DictGet(data, K_class, PyStr(Unknown))
    IN  IF raw.k = "bytes" THEN raw.by ELSE raw.s

\* getattr(module, name) followed by issubclass(type, base)
ResolveException(types, functions, name, base, data) ==
    IF name \in functions THEN Raise("TypeError")
    ELSE IF ~HasModuleAttr(types, name) THEN Raise("AttributeError")
    ELSE IF IsSubclass(ModuleAttr(types, name), base) THEN make_exception(ModuleAttr(types, name), data)
    ELSE Unsupported

\* the branch taken when data.get("__exception__", False) is true
ExceptionBranch(classname, data) ==
    IF InAllExceptions(classname) THEN make_exception(AllExceptions(classname), data)
    ELSE IF Len(Split1(classname)) # 2 THEN Raise("ValueError")
    ELSE LET namespace == Split1(classname)[1]
             short_classname == Split1(classname)[2]
         IN  IF namespace \in {<<"builtins">>, <<"exceptions">>}
             THEN ResolveException(BuiltinClasses, BuiltinFunctions, short_classname, "BaseException", data)
             ELSE IF namespace = <<"sqlite3">> /\ EndsWith(short_classname, "Error")
             THEN ResolveException(Sqlite3Classes, {}, short_classname, "BaseException", data)
             ELSE Unsupported

dict_to_class_gate_first(reg, data) ==
    IF Contains(ClassNameOf(data), Dunder) THEN Raise("SecurityError")
    ELSE IF ClassNameOf(data) \in DOMAIN reg THEN ApplyD2C(reg[ClassNameOf(data)], ClassNameOf(data), data)
    ELSE IF StartsWith(ClassNameOf(data), ErrorsPrefix) THEN ResolveException(ErrorsModule, {}, Split2Rest(ClassNameOf(data)), "PyroError", data)
    ELSE IF Truthy(DictGet(data, K_exception, PyBool(FALSE))) THEN ExceptionBranch(ClassNameOf(data), data)
    ELSE Unsupported

RECURSIVE dict_to_class(_, _)
dict_to_class(reg, data) ==
    LET classname == ClassNameOf(data) IN
    IF classname \in DOMAIN reg THEN ApplyD2C(reg[classname], classname, data)
    ELSE IF Contains(classname, Dunder) THEN Raise("SecurityError")
    ELSE IF StartsWith(classname, CorePrefix) THEN
        IF \E t \in CoreTypes : classname = CorePrefix \o <<t>>
        THEN SetStateFromDict(CHOOSE t \in CoreTypes : classname = CorePrefix \o <<t>>, data)
        ELSE Unsupported
    ELSE IF StartsWith(classname, UtilPrefix) THEN
        IF \E t \in UtilTypes : classname = UtilPrefix \o <<t>>
        THEN Ok(PyObj(CHOOSE t \in UtilTypes : classname = UtilPrefix \o <<t>>, <<>>, EmptyMap))
        ELSE Unsupported
    ELSE IF StartsWith(classname, ErrorsPrefix) THEN
        ResolveException(ErrorsModule, {}, Split2Rest(classname), "PyroError", data)
    ELSE IF classname = CorePrefix \o <<"_ExceptionWrapper">> THEN
        IF KS("exception") \notin DOMAIN data.d THEN Raise("KeyError")
        ELSE LET ex == data.d[KS("exception")]
                 inner == IF ex.k = "dict" /\ K_class \in DOMAIN ex.d THEN dict_to_class(reg, ex) ELSE Ok(ex)
             IN  IF IsOk(inner) THEN Ok(PyObj("_ExceptionWrapper", <<>>, KS("exception") :> inner.val)) ELSE inner
    ELSE IF Truthy(DictGet(data, K_exception, PyBool(FALSE))) THEN ExceptionBranch(classname, data)
    ELSE Unsupported

\* SerpentSerializer.dict_to_class: the record serpent writes for a float nan
FloatLiterals == {<<"nan">>, <<"inf">>}
serpent_dict_to_class(reg, data) ==
    IF DictGet(data, K_class, PyNone) = PyStr(<<"float">>)
    THEN IF KS("value") \notin DOMAIN data.d THEN Raise("KeyError")
         ELSE IF data.d[KS("value")].k = "str" /\ data.d[KS("value")].s \in FloatLiterals THEN Ok(PyFloat(data.d[KS("value")].s))
         ELSE Raise("ValueError")
    ELSE dict_to_class(reg, data)

---------------------------------------------------------------------------
(* The registry operations *)

\* get_serializer_by_id(SerpentSerializer.serializer_id)
get_serializer_by_id(sp) == IF sp.avail THEN Ok(PyObj("SerpentSerializer", <<>>, EmptyMap)) ELSE Raise("SerializeError")
\* except errors.ProtocolError: SerializeError derives from ProtocolError in Pyro5/errors.py
CaughtAsProtocolError(exc) == exc \in {"ProtocolError", "SerializeError"}
AfterSerpentLookup(sp) ==
    IF IsOk(get_serializer_by_id(sp)) \/ CaughtAsProtocolError(get_serializer_by_id(sp).exc) THEN Ok(PyNone) ELSE get_serializer_by_id(sp)

\* a write that lands while a read is in flight is appended to the read's log
Snapshot(out_reg, in_reg) == [c2d |-> out_reg, d2c |-> in_reg]
LogWrite(out_reg, in_reg) ==
    /\ rd.pc # "idle" => Len(wlog) <= MaxWrites
    /\ wlog' = IF rd.pc = "idle" THEN wlog ELSE Append(wlog, Snapshot(out_reg, in_reg))
    /\ UNCHANGED rd

register_class_to_dict(clazz, converter, serpent_too) ==
    /\ c2d' = C2DPut(c2d, clazz, converter)
    /\ serpent' = IF serpent_too /\ serpent.avail THEN [serpent EXCEPT !.classes = DictSet(serpent.classes, clazz, converter)] ELSE serpent
    /\ call' = [out |-> IF serpent_too THEN AfterSerpentLookup(serpent) ELSE Ok(PyNone), op |-> "register_class_to_dict"]
    /\ LogWrite(c2d', d2c)
    /\ UNCHANGED d2c

unregister_class_to_dict_outbound_only(clazz) ==
    /\ c2d' = C2DDel(c2d, clazz)
    /\ serpent' = serpent
    /\ call' = [out |-> AfterSerpentLookup(serpent), op |-> "unregister_class_to_dict"]
    /\ LogWrite(c2d', d2c)
    /\ UNCHANGED d2c

unregister_class_to_dict(clazz) ==
    /\ c2d' = C2DDel(c2d, clazz)
    /\ serpent' = IF serpent.avail THEN [serpent EXCEPT !.classes = D2CDel(serpent.classes, clazz)] ELSE serpent
    /\ call' = [out |-> AfterSerpentLookup(serpent), op |-> "unregister_class_to_dict"]
    /\ LogWrite(c2d', d2c)
    /\ UNCHANGED d2c

register_dict_to_class(classname, converter) ==
    /\ d2c' = DictSet(d2c, classname, converter)
    /\ call' = [out |-> Ok(PyNone), op |-> "register_dict_to_class"]
    /\ LogWrite(c2d, d2c')
    /\ UNCHANGED <<c2d, serpent>>

unregister_dict_to_class(classname) ==
    /\ d2c' = D2CDel(d2c, classname)
    /\ call' = [out |-> Ok(PyNone), op |-> "unregister_dict_to_class"]
    /\ LogWrite(c2d, d2c')
    /\ UNCHANGED <<c2d, serpent>>

---------------------------------------------------------------------------
(* The records and objects handed to the reconstruction engine *)

Name(a, b) == <<a, Dot, b>>
MainThingName == QualName("MainThing")
ProtocolErrorName == QualName("ProtocolError")
ThingName == QualName("Thing")

RecordNames ==
    { MainThingName, <<"app", Dot, Dunder, "evil">>, ThingName, Name("app", "Other"),
      CorePrefix \o <<"URI">>, CorePrefix \o <<"Nope">>, CorePrefix \o <<"_ExceptionWrapper">>,
      UtilPrefix \o <<"MarshalSerializer">>, UtilPrefix \o <<"Nope">>,
      ProtocolErrorName, QualName("PyroTimeoutError"), ErrorsPrefix \o <<"Nope">>, ErrorsPrefix, ErrorsPrefix \o <<"sub", Dot, "Protocol", "Error">>,
      QualName("ValueError"), QualName("TimeoutError"), <<"exceptions", Dot, "Value", "Error">>,
      Name("builtins", "Nope"), Name("builtins", "len"), Name("builtins", "int"),
      <<"Value", "Error">>, <<"Timeout", "Error">>, <<"Nope">>,
      QualName("OperationalError"), <<"sqlite3", Dot, "Bogus", "Error">>, Name("sqlite3", "connect"),
      QualName("AppError"), <<"float">> }

ExcPayload == (K_args :> PyTuple(<<KS("bad request")>>)) @@ (K_attributes :> PyDict(KS("extra") :> Small(4)))
StatePayload == (K_state :> PyTuple(<<KS("loc")>>)) @@ (K_val :> Small(1)) @@ (KS("value") :> KS("nan"))
Payloads == {ExcPayload, StatePayload}
Flags == {EmptyMap, K_exception :> PyBool(TRUE)}

Records ==
    { PyDict((K_class :> PyStr(n)) @@ f @@ p) : n \in RecordNames, f \in Flags, p \in Payloads }
    \cup { PyDict(f @@ p) : f \in Flags, p \in Payloads }
    \cup { PyDict((K_class :> PyStr(n)) @@ (K_args :> PyList(<<>>))) : n \in {ProtocolErrorName, MainThingName} }
    \cup { PyDict((K_class :> PyBytes(n)) @@ ExcPayload) : n \in {MainThingName, ProtocolErrorName} }
SerpentRecords == { r \in Records : ClassNameOf(r) \in {<<"float">>, MainThingName, Unknown} }

ExcAttrs == KS("extra") :> Small(4)
ExceptionObjects ==
    { PyObj(c, <<KS("bad request")>>, a) : c \in {"ProtocolError", "PyroTimeoutError", "ValueError", "AppError"}, a \in {EmptyMap, ExcAttrs, ExcAttrs @@ (K_daemon :> LiveDaemon)} }
Objects ==
    { PyObj(c, <<>>, K_val :> Small(1)) : c \in {"Thing", "SubThing", "MainThing", "Slotted", "Stateful", "OddState"} }
    \cup { PyObj(c, <<>>, (K_val :> Small(1)) @@ (K_daemon :> LiveDaemon)) : c \in {"Thing", "Slotted", "Stateful"} }
    \cup { PyObj("Opaque", <<>>, EmptyMap) }
    \cup ExceptionObjects
    \cup { PyList(<<Small(1)>>), PyTuple(<<>>), PySet({Small(1)}), PyDict(K_val :> Small(1)), PyBytes(<<"a">>) }

---------------------------------------------------------------------------
(* The reconstruction engine's operations, as a caller runs them *)

BaseAdapters == {"marshal", "json", "msgpack"}
DictToClassOf(adapter, reg, data) == IF adapter = "serpent" THEN serpent_dict_to_class(reg, data) ELSE dict_to_class(reg, data)

\* A reconstruction call leaves the registries as they are: it is run from the
\* states the registry operations leave, and its result is kept until the next one.
RegistryOps == {"none", "register_class_to_dict", "unregister_class_to_dict", "register_dict_to_class", "unregister_dict_to_class"}
CallerReady == rd.pc = "idle" /\ call.op \in RegistryOps

DictToClass(adapter, data) ==
    /\ CallerReady
    /\ call' = [data |-> data, out |-> DictToClassOf(adapter, d2c, data), op |-> "dict_to_class", adapter |-> adapter]
    /\ UNCHANGED <<c2d, d2c, serpent, rd, wlog>>

ClassToDict(obj) ==
    /\ CallerReady
    /\ \E r \in {class_to_dict(c2d, obj)} :
            call' = [obj |-> obj, out |-> r.out, op |-> "class_to_dict", after |-> r.obj]
    /\ UNCHANGED <<c2d, d2c, serpent, rd, wlog>>

\* dict_to_class(class_to_dict(e))
ExceptionRoundTrip(e) ==
    /\ CallerReady
    /\ IsOk(class_to_dict(c2d, e).out)
    /\ class_to_dict(c2d, e).out.val.k = "dict"
    /\ call' = [obj |-> e, out |-> dict_to_class(d2c, class_to_dict(c2d, e).out.val), op |-> "exception_round_trip",
                after |-> class_to_dict(c2d, e).obj, record |-> class_to_dict(c2d, e).out.val]
    /\ UNCHANGED <<c2d, d2c, serpent, rd, wlog>>

RegistryNames == {MainThingName, ProtocolErrorName}

Idle == [pc |-> "idle"]
NoSerpentClasses == [c \in {} |-> "vars_to_dict"]

Init ==
    /\ c2d = <<>>
    /\ d2c = [n \in {} |-> "echo"]
    /\ serpent = [avail |-> TRUE, classes |-> NoSerpentClasses]
    /\ call = [op |-> "none"]
    /\ rd = Idle
    /\ wlog = <<>>

\* Inbound reconstruction under every state of the inbound registry
Next ==
    \/ \E classname \in RegistryNames, conv \in {"dict_to_main", "echo"} : register_dict_to_class(classname, conv)
    \/ \E classname \in RegistryNames : unregister_dict_to_class(classname)
    \/ register_class_to_dict("Exception", "vars_to_dict", TRUE)
    \/ unregister_class_to_dict("Exception")
    \/ \E data \in Records : DictToClass("marshal", data)
    \/ \E data \in SerpentRecords : DictToClass("serpent", data)
    \/ \E e \in ExceptionObjects : ExceptionRoundTrip(e)

Spec == Init /\ [][Next]_vars

---------------------------------------------------------------------------
(* Claims about inbound reconstruction *)

InboundCall == call.op = "dict_to_class"
CallName == ClassNameOf(call.data)
Flagged(data) == Truthy(DictGet(data, K_exception, PyBool(FALSE)))

\* C1: whatever register_dict_to_class / unregister_dict_to_class calls came
\* before, dict_to_class on a record whose type name contains "__" raises
\* SecurityError when the name is not in the inbound registry, and returns what
\* the registered converter returns for (name, record) when it is.
C1_DunderGateAfterRegistry ==
    (InboundCall /\ Contains(CallName, Dunder)) =>
        IF CallName \in DOMAIN d2c
        THEN call.out = ApplyD2C(d2c[CallName], CallName, call.data)
        ELSE call.out = Raise("SecurityError")

C1_Witness ==
    /\ InboundCall /\ Contains(CallName, Dunder)
    /\ CallName \in DOMAIN d2c /\ d2c[CallName] = "dict_to_main"
    /\ call.out = Ok(PyObj("MainThing", <<>>, K_val :> Small(1)))

\* The type a type name stands for, read off the name alone: a framework error
\* by its qualified name; with the exception flag, a builtin exception by its
\* qualified name (under builtins or exceptions) or by a short name of
\* all_exceptions, or an existing sqlite3 class whose name ends in "Error".
NamedExceptionTypes(classname, flagged) ==
    {t \in ErrorsModule : classname = QualName(t)}
    \cup (IF ~flagged \/ StartsWith(classname, CorePrefix) \/ StartsWith(classname, UtilPrefix) \/ StartsWith(classname, ErrorsPrefix) THEN {}
          ELSE AllExceptionTypes(classname)
               \cup {t \in BuiltinClasses : IsSubclass(t, "BaseException") /\ classname \in {QualName(t), <<"exceptions", Dot>> \o TypeTable[t].name}}
               \cup {t \in Sqlite3Classes : classname = QualName(t) /\ EndsWith(classname, "Error")})
FrameworkTypeNames == {CorePrefix \o <<t>> : t \in CoreTypes} \cup {UtilPrefix \o <<t>> : t \in UtilTypes}

\* C2: a record whose type name is not registered, has no "__", is no
\* hardcoded framework type and names no recognized exception type makes
\* dict_to_class fail with SerializeError and with no other failure.
C2_ClosedWorld ==
    (/\ InboundCall /\ call.adapter # "serpent"
     /\ CallName \notin DOMAIN d2c
     /\ ~Contains(CallName, Dunder)
     /\ CallName \notin FrameworkTypeNames
     /\ NamedExceptionTypes(CallName, Flagged(call.data)) = {})
    => call.out = Raise("SerializeError")

WellFormedExceptionRecord(data) ==
    /\ data.k = "dict" /\ K_args \in DOMAIN data.d /\ data.d[K_args].k \in {"list", "tuple"}
    /\ K_attributes \in DOMAIN data.d => data.d[K_attributes].k = "dict"
RecordAttributes(data) == IF K_attributes \in DOMAIN data.d THEN data.d[K_attributes].d ELSE EmptyMap
Rebuilt(data) == PyObj(CHOOSE t \in NamedExceptionTypes(ClassNameOf(data), Flagged(data)) : TRUE, data.d[K_args].items, RecordAttributes(data))
Resolvable(data) == Cardinality(NamedExceptionTypes(ClassNameOf(data), Flagged(data))) = 1
FrameworkError(e) == e.k = "obj" /\ e.cls \in ErrorsModule

\* C6 as stated: every exception record whose type name resolves to a framework
\* error, builtin exception or sqlite3 *Error type comes back as an instance of
\* that type built from the stored args with every stored attribute set, and
\* dict_to_class(class_to_dict(e)) has e's type, args and attributes for every
\* framework-error instance e.
C6_AsStated ==
    /\ (InboundCall /\ WellFormedExceptionRecord(call.data) /\ Resolvable(call.data))
        => call.out = Ok(Rebuilt(call.data))
    /\ (call.op = "exception_round_trip" /\ FrameworkError(call.obj))
        => call.out = Ok(call.after)

\* C6, amended: the same, for a type name that is not in the inbound registry
\* and, for the round trip, an instance that no outbound registry entry matches.
C6_ExceptionRebuilt ==
    /\ (InboundCall /\ WellFormedExceptionRecord(call.data) /\ Resolvable(call.data)
            /\ CallName \notin DOMAIN d2c)
        => call.out = Ok(Rebuilt(call.data))
    /\ (call.op = "exception_round_trip" /\ FrameworkError(call.obj)
            /\ FirstMatch(c2d, call.obj) = 0 /\ ClassNameOf(call.record) \notin DOMAIN d2c)
        => call.out = Ok(call.after)

C6_Witness ==
    /\ call.op = "exception_round_trip" /\ call.obj.cls = "PyroTimeoutError"
    /\ FirstMatch(c2d, call.obj) = 0 /\ d2c # [n \in {} |-> "echo"]
    /\ HasAttr(call.obj, K_daemon)
    /\ IsOk(call.out) /\ call.out.val.cls = "PyroTimeoutError"
    /\ call.out.val.attrs = (KS("extra") :> Small(4)) @@ (K_daemon :> PyNone)

---------------------------------------------------------------------------
(* A lookup in one thread while another thread writes the registries.      *)
(* The registries are plain dicts and no lock is taken: each dict          *)
(* operation of the reader is one step, and a write may land between two.  *)

KeysOf(reg) == [i \in 1..Len(reg) |-> reg[i].clazz]

\* dict_to_class is entered: classname = data.get("__class__", "<unknown>")
BeginDictToClass(data) ==
    /\ rd.pc = "idle"
    /\ rd' = [pc |-> "d2c_test", op |-> "dict_to_class", arg |-> data]
    /\ wlog' = <<Snapshot(c2d, d2c)>>
    /\ UNCHANGED <<c2d, d2c, serpent, call>>

\* if classname in cls.__custom_dict_to_class_registry
D2CTest ==
    /\ rd.pc = "d2c_test"
    /\ rd' = [rd EXCEPT !.pc = IF ClassNameOf(rd.arg) \in DOMAIN d2c THEN "d2c_fetch" ELSE "d2c_rest"]
    /\ UNCHANGED <<c2d, d2c, serpent, call, wlog>>

\* converter = cls.__custom_dict_to_class_registry[classname]; return converter(classname, data)
D2CFetch ==
    /\ rd.pc = "d2c_fetch"
    /\ rd' = [out |-> IF ClassNameOf(rd.arg) \in DOMAIN d2c
                      THEN ApplyD2C(d2c[ClassNameOf(rd.arg)], ClassNameOf(rd.arg), rd.arg)
                      ELSE Raise("KeyError"),
              pc |-> "done", op |-> rd.op, arg |-> rd.arg]
    /\ UNCHANGED <<c2d, d2c, serpent, call, wlog>>

\* the steps after the registry test, which read no registry
D2CRest ==
    /\ rd.pc = "d2c_rest"
    /\ rd' = [out |-> dict_to_class(EmptyMap, rd.arg), pc |-> "done", op |-> rd.op, arg |-> rd.arg]
    /\ UNCHANGED <<c2d, d2c, serpent, call, wlog>>

\* class_to_dict is entered: iter(cls.__custom_class_to_dict_registry)
BeginClassToDict(obj) ==
    /\ rd.pc = "idle"
    /\ rd' = [pc |-> "c2d_next", op |-> "class_to_dict", arg |-> obj, idx |-> 0, size |-> Len(c2d), keys |-> KeysOf(c2d)]
    /\ wlog' = <<Snapshot(c2d, d2c)>>
    /\ UNCHANGED <<c2d, d2c, serpent, call>>

\* next() on the dict iterator, then isinstance(obj, clazz)
C2DNext ==
    /\ rd.pc = "c2d_next"
    /\ rd' = IF Len(c2d) # rd.size
             THEN [out |-> Raise("RuntimeError"), pc |-> "done", op |-> rd.op, arg |-> rd.arg]
             ELSE IF rd.idx >= Len(c2d) THEN [pc |-> "c2d_rest", op |-> rd.op, arg |-> rd.arg]
             ELSE IF IsInstance(rd.arg, c2d[rd.idx + 1].clazz)
                  THEN [clazz |-> c2d[rd.idx + 1].clazz, pc |-> "c2d_fetch", op |-> rd.op, arg |-> rd.arg]
                  ELSE [rd EXCEPT !.idx = rd.idx + 1]
    /\ UNCHANGED <<c2d, d2c, serpent, call, wlog>>

\* next() on a dict of the same size whose keys were replaced: the iterator may
\* also report the change ("dictionary keys changed during iteration")
C2DNextKeysChanged ==
    /\ rd.pc = "c2d_next"
    /\ Len(c2d) = rd.size /\ KeysOf(c2d) # rd.keys
    /\ rd' = [out |-> Raise("RuntimeError"), pc |-> "done", op |-> rd.op, arg |-> rd.arg]
    /\ UNCHANGED <<c2d, d2c, serpent, call, wlog>>

\* return cls.__custom_class_to_dict_registry[clazz](obj)
C2DFetch ==
    /\ rd.pc = "c2d_fetch"
    /\ rd' = [out |-> IF C2DHas(c2d, rd.clazz) THEN ApplyC2D(C2DGet(c2d, rd.clazz), rd.arg) ELSE Raise("KeyError"),
              pc |-> "done", op |-> rd.op, arg |-> rd.arg]
    /\ UNCHANGED <<c2d, d2c, serpent, call, wlog>>

\* the steps after the registry loop, which read no registry
C2DRest ==
    /\ rd.pc = "c2d_rest"
    /\ rd' = [out |-> class_to_dict(<<>>, rd.arg).out, pc |-> "done", op |-> rd.op, arg |-> rd.arg]
    /\ UNCHANGED <<c2d, d2c, serpent, call, wlog>>

\* the reader returns to its caller
ReadReturns ==
    /\ rd.pc = "done"
    /\ rd' = Idle
    /\ wlog' = <<>>
    /\ call' = [out |-> rd.out, op |-> rd.op]
    /\ UNCHANGED <<c2d, d2c, serpent>>

ThreadRecords == { PyDict((K_class :> PyStr(n)) @@ StatePayload) : n \in {MainThingName, ThingName} }
ThreadObjects == { PyObj(c, <<>>, K_val :> Small(1)) : c \in {"Thing", "Slotted"} }

NextThreads ==
    \/ \E clazz \in {"Thing", "object"}, conv \in {"thing_to_dict", "vars_to_dict"} : register_class_to_dict(clazz, conv, TRUE)
    \/ \E clazz \in {"Thing", "object"} : unregister_class_to_dict(clazz)
    \/ \E classname \in {MainThingName, ThingName}, conv \in {"dict_to_thing", "echo"} : register_dict_to_class(classname, conv)
    \/ \E classname \in {MainThingName, ThingName} : unregister_dict_to_class(classname)
    \/ \E data \in ThreadRecords : BeginDictToClass(data)
    \/ D2CTest
    \/ D2CFetch
    \/ D2CRest
    \/ \E obj \in ThreadObjects : BeginClassToDict(obj)
    \/ C2DNext
    \/ C2DNextKeysChanged
    \/ C2DFetch
    \/ C2DRest
    \/ ReadReturns

SpecThreads == Init /\ [][NextThreads]_vars

\* what the read returns when it runs with no write in between, on registries s
AtomicRead(s) ==
    IF rd.op = "dict_to_class" THEN dict_to_class(s.d2c, rd.arg) ELSE class_to_dict(s.c2d, rd.arg).out

\* C3: a lookup that overlaps register/unregister calls of another thread ends
\* as it would have ended running alone on the registries as they were at its
\* start or after one of the overlapping writes; it never fails because of
\* the write.
C3_ReadsAreAtomic ==
    rd.pc = "done" => \E i \in 1..Len(wlog) : rd.out = AtomicRead(wlog[i])

---------------------------------------------------------------------------
(* The msgpack extension codec: MsgpackSerializer.default and ext_hook.    *)
(* A payload is the bytes of an ExtType: either ASCII characters or the    *)
(* fields struct.pack laid out, 8 bytes each ("d" a double, "l" a long).   *)
(* The process's local time zone is UTC.                                   *)

ExtComplex == 48      \* 0x30
ExtLong == 49         \* 0x31
ExtDateTime == 50     \* 0x32
ExtDate == 51         \* 0x33
DoubleBits == 53      \* significand bits of the double struct.pack("d", ...) writes
EpochOrdinal == 719163  \* date(1970, 1, 1).toordinal()
MaxOrdinal == 3652059   \* date.max.toordinal()

\* complex(re, im): both parts are doubles
PyComplex(re, im) == [k |-> "complex", re |-> re, im |-> im]
\* datetime.datetime: days since 1970-01-01, second of the day, microsecond, and whether tzinfo is set
PyDateTime(days, sod, us, tz) == [k |-> "datetime", days |-> days, sod |-> sod, us |-> us, tz |-> tz]
\* datetime.date, by its proleptic ordinal
PyDate(ord) == [k |-> "date", ord |-> ord]
ExtType(code, data) == [k |-> "ext", data |-> data, code |-> code]

\* a double: a literal, a timestamp (whole seconds days*86400 + sod plus num / 2^bits),
\* or the 8 bytes of a long read as a double
DLit(lit) == [d |-> "lit", lit |-> lit]
DTime(days, sod, num, bits) == [d |-> "time", days |-> days, sod |-> sod, num |-> num, bits |-> bits]
DBits(l) == [d |-> "bits", of |-> l]
\* a long: an integer, or the 8 bytes of a double read as a long
LInt(n) == [n |-> n, l |-> "int"]
LBits(d) == [l |-> "bits", of |-> d]

RECURSIVE BitLen(_)
BitLen(n) == IF n = 0 THEN 0 ELSE 1 + BitLen(n \div 2)
\* a / b rounded to the nearest integer
RoundDiv(a, b) == (a \div b) + (IF 2 * (a % b) >= b THEN 1 ELSE 0)

\* the bits a double has left for the fraction of a second once the whole
\* seconds days*86400 + sod = 128 * (days*675 + sod \div 128) + sod % 128 are stored
FractionBits(days, sod) == DoubleBits - (BitLen(days * 675 + sod \div 128) + 7)

\* datetime.timestamp() of a naive datetime: seconds + microsecond / 1e6, as a double
timestamp(dt) ==
    DTime(dt.days, dt.sod, RoundDiv(dt.us * 2^FractionBits(dt.days, dt.sod), 1000000), FractionBits(dt.days, dt.sod))

\* datetime.datetime.fromtimestamp(d): the fraction rounded to microseconds
fromtimestamp(d) ==
    IF d.d = "bits" THEN Ok(PyDateTime(0, 0, 0, FALSE))
    ELSE LET us == RoundDiv(d.num * 1000000, 2^d.bits)
         IN  IF us < 1000000 THEN Ok(PyDateTime(d.days, d.sod, us, FALSE))
             ELSE IF d.sod + 1 < 86400 THEN Ok(PyDateTime(d.days, d.sod + 1, 0, FALSE))
             ELSE Ok(PyDateTime(d.days + 1, 0, 0, FALSE))

\* date.toordinal(), also of a datetime
toordinal(obj) == IF obj.k = "date" THEN obj.ord ELSE obj.days + EpochOrdinal
\* datetime.date.fromordinal(n)
fromordinal(l) ==
    IF l.l = "bits" THEN Raise("OverflowError")
    ELSE IF l.n < 1 \/ l.n > MaxOrdinal THEN Raise("ValueError")
    ELSE Ok(PyDate(l.n))

\* struct.pack(fmt, *vals) and struct.unpack(fmt, data)
struct_pack(fmt, vals) == [p |-> "struct", fields |-> [i \in 1..Len(fmt) |-> [v |-> vals[i], f |-> fmt[i]]]]
PayloadSize(data) == IF data.p = "ascii" THEN Len(data.chars) ELSE 8 * Len(data.fields)
ReadAs(f, field) ==
    IF field.f = f THEN field.v
    ELSE IF f = "d" THEN DBits(field.v) ELSE LBits(field.v)
struct_unpack(fmt, data) ==
    IF PayloadSize(data) # 8 * Len(fmt) THEN Raise("struct.error")
    ELSE Ok([i \in 1..Len(fmt) |-> ReadAs(fmt[i], data.fields[i])])

\* str(obj).encode("ascii") of an int, and int(data)
DigitChars == <<"0", "1", "2", "3", "4", "5", "6", "7", "8", "9">>
AsciiOfInt(obj) == [p |-> "ascii", chars |-> (IF obj.neg THEN <<"-">> ELSE <<>>) \o [i \in 1..Len(obj.digits) |-> DigitChars[obj.digits[i] + 1]]]
DigitOf(ch) == (CHOOSE i \in 1..10 : DigitChars[i] = ch) - 1
RECURSIVE StripZeros(_)
StripZeros(ds) == IF Len(ds) > 1 /\ ds[1] = 0 THEN StripZeros(Tail(ds)) ELSE ds
IntOfAscii(data) ==
    IF data.p # "ascii" THEN Raise("ValueError")
    ELSE LET neg == Len(data.chars) > 0 /\ data.chars[1] = "-"
             body == IF neg THEN Tail(data.chars) ELSE data.chars
         IN  IF Len(body) = 0 \/ \E i \in 1..Len(body) : \A j \in 1..10 : DigitChars[j] # body[i]
             THEN Raise("ValueError")
             ELSE LET ds == StripZeros([i \in 1..Len(body) |-> DigitOf(body[i])])
                  IN  Ok(PyInt(neg /\ ds # <<0>>, ds))

\* for code in (0x30, 0x31, 0x32, 0x33): the decoder of that code; else SerializeError
ext_hook(code, data) ==
    IF code = ExtComplex THEN
        LET u == struct_unpack(<<"d", "d">>, data) IN IF IsOk(u) THEN Ok(PyComplex(u.val[1], u.val[2])) ELSE u
    ELSE IF code = ExtLong THEN IntOfAscii(data)
    ELSE IF code = ExtDateTime THEN
        LET u == struct_unpack(<<"d">>, data) IN IF IsOk(u) THEN fromtimestamp(u.val[1]) ELSE u
    ELSE IF code = ExtDate THEN
        LET u == struct_unpack(<<"l">>, data) IN IF IsOk(u) THEN fromordinal(u.val[1]) ELSE u
    ELSE Raise("SerializeError")

\* tuple(obj) of a set: its elements in the set's iteration order
TupleOfSet(S) == CHOOSE xs \in [1..Cardinality(S) -> S] : \A x \in S : \E i \in 1..Cardinality(S) : xs[i] = x

msgpack_default_date_first(reg, obj) ==
    IF IsInstance(obj, "set") THEN Ok(PyTuple(TupleOfSet(obj.elems)))
    ELSE IF IsInstance(obj, "complex") THEN Ok(ExtType(ExtComplex, struct_pack(<<"d", "d">>, <<obj.re, obj.im>>)))
    ELSE IF IsInstance(obj, "date") THEN Ok(ExtType(ExtDate, struct_pack(<<"l">>, <<LInt(toordinal(obj))>>)))
    ELSE IF IsInstance(obj, "datetime") THEN
        IF obj.tz THEN Raise("SerializeError")
        ELSE Ok(ExtType(ExtDateTime, struct_pack(<<"d">>, <<timestamp(obj)>>)))
    ELSE IF IsInstance(obj, "int") THEN Ok(ExtType(ExtLong, AsciiOfInt(obj)))
    ELSE class_to_dict(reg, obj).out

\* MsgpackSerializer.default, for the objects the packer hands to it: the
\* types it has no format for and the integers outside its range. No type
\* replacement is registered; uuid, bytearray and Decimal values are not
\* among the values modelled.
msgpack_default(reg, obj) ==
    IF IsInstance(obj, "set") THEN Ok(PyTuple(TupleOfSet(obj.elems)))
    ELSE IF IsInstance(obj, "complex") THEN Ok(ExtType(ExtComplex, struct_pack(<<"d", "d">>, <<obj.re, obj.im>>)))
    ELSE IF IsInstance(obj, "datetime") THEN
        IF obj.tz THEN Raise("SerializeError")
        ELSE Ok(ExtType(ExtDateTime, struct_pack(<<"d">>, <<timestamp(obj)>>)))
    ELSE IF IsInstance(obj, "date") THEN Ok(ExtType(ExtDate, struct_pack(<<"l">>, <<LInt(toordinal(obj))>>)))
    ELSE IF IsInstance(obj, "int") THEN Ok(ExtType(ExtLong, AsciiOfInt(obj)))
    ELSE class_to_dict(reg, obj).out

---------------------------------------------------------------------------
(* Encoders and decoders walk a value in order and stop at the first error *)

AllOk(rs) == \A i \in 1..Len(rs) : IsOk(rs[i])
FirstError(rs) == rs[CHOOSE i \in 1..Len(rs) : ~IsOk(rs[i]) /\ \A j \in 1..(i-1) : IsOk(rs[j])]
Vals(rs) == [i \in 1..Len(rs) |-> rs[i].val]
\* the same over the entries of a mapping f of outcomes (one failing entry at most in the values modelled)
AllOkMap(f) == \A x \in DOMAIN f : IsOk(f[x])
AnyError(f) == f[CHOOSE x \in DOMAIN f : ~IsOk(f[x])]

---------------------------------------------------------------------------
(* msgpack: packb(obj, use_bin_type=True, default=...) and unpackb(data,   *)
(* encoding="utf-8", object_hook=..., [ext_hook=...]). A packed message is *)
(* the tree of msgpack format families it consists of.                     *)

\* the integers msgpack has a format for: -2^63 .. 2^64 - 1
U64Max == <<1, 8, 4, 4, 6, 7, 4, 4, 0, 7, 3, 7, 0, 9, 5, 5, 1, 6, 1, 5>>
I64Min == <<9, 2, 2, 3, 3, 7, 2, 0, 3, 6, 8, 5, 4, 7, 7, 5, 8, 0, 8>>
DigitsLeq(a, b) ==
    \/ Len(a) < Len(b)
    \/ Len(a) = Len(b) /\ (a = b \/ \E i \in 1..Len(a) : a[i] < b[i] /\ \A j \in 1..(i-1) : a[j] = b[j])
NativeInt(obj) == IF obj.neg THEN DigitsLeq(obj.digits, I64Min) ELSE DigitsLeq(obj.digits, U64Max)

RECURSIVE msgpack_pack(_, _, _)
msgpack_pack(reg, obj, default_used) ==
    CASE obj.k = "none" -> Ok([m |-> "nil"])
      [] obj.k = "bool" -> Ok([b |-> obj.b, m |-> "bool"])
      [] obj.k = "int" /\ NativeInt(obj) -> Ok([neg |-> obj.neg, digits |-> obj.digits, m |-> "int"])
      [] obj.k = "float" -> Ok([lit |-> obj.lit, m |-> "float"])
      [] obj.k = "str" -> Ok([s |-> obj.s, m |-> "str"])
      [] obj.k = "bytes" -> Ok([by |-> obj.by, m |-> "bin"])
      [] obj.k = "ext" -> Ok([data |-> obj.data, code |-> obj.code, m |-> "ext"])
      [] obj.k \in {"list", "tuple"} ->
            LET rs == [i \in 1..Len(obj.items) |-> msgpack_pack(reg, obj.items[i], FALSE)]
            IN  IF AllOk(rs) THEN Ok([items |-> Vals(rs), m |-> "array"]) ELSE FirstError(rs)
      [] obj.k = "dict" ->
            LET ks == [x \in DOMAIN obj.d |-> msgpack_pack(reg, x, FALSE)]
                vs == [x \in DOMAIN obj.d |-> msgpack_pack(reg, obj.d[x], FALSE)]
            IN  IF ~AllOkMap(ks) THEN AnyError(ks)
                ELSE IF ~AllOkMap(vs) THEN AnyError(vs)
                ELSE Ok([m |-> "map", entries |-> [kn \in {ks[x].val : x \in DOMAIN obj.d} |-> vs[CHOOSE x \in DOMAIN obj.d : ks[x].val = kn].val]])
      [] OTHER ->
            IF default_used THEN Raise(IF obj.k = "int" THEN "OverflowError" ELSE "TypeError")
            ELSE Then(msgpack_default(reg, obj), LAMBDA replaced : msgpack_pack(reg, replaced, TRUE))

\* MsgpackSerializer.object_hook
object_hook(reg, obj) == IF K_class \in DOMAIN obj.d THEN dict_to_class(reg, obj) ELSE Ok(obj)

Hashable(v) == v.k \notin {"list", "dict", "set"}

RECURSIVE msgpack_unpack(_, _, _)
msgpack_unpack(reg, doc, with_ext_hook) ==
    CASE doc.m = "nil" -> Ok(PyNone)
      [] doc.m = "bool" -> Ok(PyBool(doc.b))
      [] doc.m = "int" -> Ok(PyInt(doc.neg, doc.digits))
      [] doc.m = "float" -> Ok(PyFloat(doc.lit))
      [] doc.m = "str" -> Ok(PyStr(doc.s))
      [] doc.m = "bin" -> Ok(PyBytes(doc.by))
      [] doc.m = "ext" -> IF with_ext_hook THEN ext_hook(doc.code, doc.data) ELSE Ok(ExtType(doc.code, doc.data))
      [] doc.m = "array" ->
            LET rs == [i \in 1..Len(doc.items) |-> msgpack_unpack(reg, doc.items[i], with_ext_hook)]
            IN  IF AllOk(rs) THEN Ok(PyList(Vals(rs))) ELSE FirstError(rs)
      [] doc.m = "map" ->
            LET ks == [x \in DOMAIN doc.entries |-> msgpack_unpack(reg, x, with_ext_hook)]
                vs == [x \in DOMAIN doc.entries |-> msgpack_unpack(reg, doc.entries[x], with_ext_hook)]
            IN  IF ~AllOkMap(ks) THEN AnyError(ks)
                ELSE IF ~AllOkMap(vs) THEN AnyError(vs)
                ELSE IF \E x \in DOMAIN doc.entries : ~Hashable(ks[x].val) THEN Raise("TypeError")
                ELSE object_hook(reg, PyDict([kv \in {ks[x].val : x \in DOMAIN doc.entries} |-> vs[CHOOSE x \in DOMAIN doc.entries : ks[x].val = kv].val]))

---------------------------------------------------------------------------
(* marshal.dumps / marshal.loads: a typed tree; an object of any other     *)
(* type is "unmarshallable" (ValueError).                                  *)

RECURSIVE marshal_dumps(_)
marshal_dumps(obj) ==
    CASE obj.k = "none" -> Ok([t |-> "N"])
      [] obj.k = "bool" -> Ok([t |-> IF obj.b THEN "T" ELSE "F"])
      [] obj.k = "int" -> Ok([neg |-> obj.neg, digits |-> obj.digits, t |-> "l"])
      [] obj.k = "float" -> Ok([lit |-> obj.lit, t |-> "g"])
      [] obj.k = "complex" -> Ok([t |-> "y", re |-> obj.re, im |-> obj.im])
      [] obj.k = "str" -> Ok([s |-> obj.s, t |-> "u"])
      [] obj.k = "bytes" -> Ok([by |-> obj.by, t |-> "s"])
      [] obj.k \in {"list", "tuple"} ->
            LET rs == [i \in 1..Len(obj.items) |-> marshal_dumps(obj.items[i])]
            IN  IF AllOk(rs) THEN Ok([items |-> Vals(rs), t |-> IF obj.k = "list" THEN "[" ELSE "("]) ELSE FirstError(rs)
      [] obj.k = "set" ->
            LET rs == [x \in obj.elems |-> marshal_dumps(x)]
            IN  IF AllOkMap(rs) THEN Ok([elems |-> {rs[x].val : x \in obj.elems}, t |-> "<"]) ELSE AnyError(rs)
      [] obj.k = "dict" ->
            LET ks == [x \in DOMAIN obj.d |-> marshal_dumps(x)]
                vs == [x \in DOMAIN obj.d |-> marshal_dumps(obj.d[x])]
            IN  IF ~AllOkMap(ks) THEN AnyError(ks)
                ELSE IF ~AllOkMap(vs) THEN AnyError(vs)
                ELSE Ok([t |-> "{", entries |-> [kn \in {ks[x].val : x \in DOMAIN obj.d} |-> vs[CHOOSE x \in DOMAIN obj.d : ks[x].val = kn].val]])
      [] OTHER -> Raise("ValueError")

RECURSIVE marshal_loads(_)
marshal_loads(doc) ==
    CASE doc.t = "N" -> PyNone
      [] doc.t = "T" -> PyBool(TRUE)
      [] doc.t = "F" -> PyBool(FALSE)
      [] doc.t = "l" -> PyInt(doc.neg, doc.digits)
      [] doc.t = "g" -> PyFloat(doc.lit)
      [] doc.t = "y" -> PyComplex(doc.re, doc.im)
      [] doc.t = "u" -> PyStr(doc.s)
      [] doc.t = "s" -> PyBytes(doc.by)
      [] doc.t = "[" -> PyList([i \in 1..Len(doc.items) |-> marshal_loads(doc.items[i])])
      [] doc.t = "(" -> PyTuple([i \in 1..Len(doc.items) |-> marshal_loads(doc.items[i])])
      [] doc.t = "<" -> PySet({marshal_loads(x) : x \in doc.elems})
      [] doc.t = "{" -> PyDict([kv \in {marshal_loads(x) : x \in DOMAIN doc.entries} |-> marshal_loads(doc.entries[CHOOSE x \in DOMAIN doc.entries : marshal_loads(x) = kv])])

---------------------------------------------------------------------------
(* json.dumps(data, ensure_ascii=False, default=...) and json.loads        *)

\* the text json writes for a mapping key, when it writes one
JsonKeyable(key) == key.k \in {"str", "int", "bool", "none", "float"}
JsonKey(key) ==
    CASE key.k = "str" -> key.s
      [] key.k = "int" -> AsciiOfInt(key).chars
      [] key.k = "bool" -> IF key.b THEN <<"true">> ELSE <<"false">>
      [] key.k = "none" -> <<"null">>
      [] key.k = "float" -> key.lit

\* obj.isoformat(): the text of a date ("date", ordinal) or of a datetime
isoformat(obj) ==
    IF obj.k = "date" THEN <<"date", ToString(obj.ord)>>
    ELSE <<"date", ToString(toordinal(obj)), "T", ToString(obj.sod)>> \o (IF obj.us = 0 THEN <<>> ELSE <<Dot, ToString(obj.us)>>) \o (IF obj.tz THEN <<"+00:00">> ELSE <<>>)

\* JsonSerializer.default (no type replacement registered; no uuid or Decimal values)
json_default(reg, obj) ==
    IF IsInstance(obj, "set") THEN Ok(PyTuple(TupleOfSet(obj.elems)))
    ELSE IF IsInstance(obj, "datetime") \/ IsInstance(obj, "date") THEN Ok(PyStr(isoformat(obj)))
    ELSE class_to_dict(reg, obj).out

RECURSIVE json_dumps(_, _)
json_dumps(reg, obj) ==
    CASE obj.k = "none" -> Ok([j |-> "null"])
      [] obj.k = "bool" -> Ok([j |-> "bool", b |-> obj.b])
      [] obj.k = "int" -> Ok([j |-> "int", neg |-> obj.neg, digits |-> obj.digits])
      [] obj.k = "float" -> Ok([j |-> "float", lit |-> obj.lit])
      [] obj.k = "str" -> Ok([s |-> obj.s, j |-> "string"])
      [] obj.k \in {"list", "tuple"} ->
            LET rs == [i \in 1..Len(obj.items) |-> json_dumps(reg, obj.items[i])]
            IN  IF AllOk(rs) THEN Ok([j |-> "array", items |-> Vals(rs)]) ELSE FirstError(rs)
      [] obj.k = "dict" ->
            LET vs == [x \in DOMAIN obj.d |-> json_dumps(reg, obj.d[x])]
            IN  IF \E x \in DOMAIN obj.d : ~JsonKeyable(x) THEN Raise("TypeError")
                ELSE IF ~AllOkMap(vs) THEN AnyError(vs)
                ELSE Ok([j |-> "object", members |-> [name \in {JsonKey(x) : x \in DOMAIN obj.d} |-> vs[CHOOSE x \in DOMAIN obj.d : JsonKey(x) = name].val]])
      [] OTHER ->
            Then(json_default(reg, obj), LAMBDA replaced : json_dumps(reg, replaced))

RECURSIVE json_loads(_)
json_loads(doc) ==
    CASE doc.j = "null" -> PyNone
      [] doc.j = "bool" -> PyBool(doc.b)
      [] doc.j = "int" -> PyInt(doc.neg, doc.digits)
      [] doc.j = "float" -> PyFloat(doc.lit)
      [] doc.j = "string" -> PyStr(doc.s)
      [] doc.j = "array" -> PyList([i \in 1..Len(doc.items) |-> json_loads(doc.items[i])])
      [] doc.j = "object" -> PyDict([name \in {PyStr(x) : x \in DOMAIN doc.members} |-> json_loads(doc.members[name.s])])

---------------------------------------------------------------------------
(* SerializerBase.recreate_classes *)

RECURSIVE recreate_classes(_, _)
recreate_classes(reg, literal) ==
    CASE literal.k = "set" ->
            LET rs == [x \in literal.elems |-> recreate_classes(reg, x)]
            IN  IF AllOkMap(rs) THEN Ok(PySet({rs[x].val : x \in literal.elems})) ELSE AnyError(rs)
      [] literal.k \in {"list", "tuple"} ->
            LET rs == [i \in 1..Len(literal.items) |-> recreate_classes(reg, literal.items[i])]
            IN  IF AllOk(rs) THEN Ok([literal EXCEPT !.items = Vals(rs)]) ELSE FirstError(rs)
      [] literal.k = "dict" ->
            IF K_class \in DOMAIN literal.d THEN dict_to_class(reg, literal)
            ELSE LET rs == [x \in DOMAIN literal.d |-> recreate_classes(reg, literal.d[x])]
                 IN  IF AllOkMap(rs) THEN Ok(PyDict([x \in DOMAIN literal.d |-> rs[x].val])) ELSE AnyError(rs)
      [] OTHER -> Ok(literal)

---------------------------------------------------------------------------
(* The adapters: dumps, loads, dumpsCall, loadsCall of MarshalSerializer,  *)
(* JsonSerializer and MsgpackSerializer. The serpent adapter hands the     *)
(* whole conversion to the serpent library and is not part of this section.*)

Adapters == {"marshal", "json", "msgpack"}

\* obj, method, vargs, kwargs = <the four items of a decoded sequence>
UnpackFour(v) == IF v.k \in {"list", "tuple"} /\ Len(v.items) = 4 THEN Ok(v.items) ELSE Raise("ValueError")
Envelope(obj, method, vargs, kwargs) == PyTuple(<<obj, method, vargs, kwargs>>)

\* MarshalSerializer.dumps: marshal first, class_to_dict of the whole value when that fails
OrElse(r, fallback) == IF IsOk(r) THEN r ELSE fallback
MarshalDumps(reg, data) ==
    OrElse(marshal_dumps(data), Then(class_to_dict(reg, data).out, LAMBDA replaced : marshal_dumps(replaced)))

dumps(adapter, reg, data) ==
    CASE adapter = "marshal" -> MarshalDumps(reg, data)
      [] adapter = "json" -> json_dumps(reg, data)
      [] adapter = "msgpack" -> msgpack_pack(reg, data, FALSE)

loads(adapter, reg, data) ==
    CASE adapter = "msgpack" -> msgpack_unpack(reg, data, TRUE)
      [] OTHER -> recreate_classes(reg, IF adapter = "marshal" THEN marshal_loads(data) ELSE json_loads(data))

dumpsCall(adapter, reg, obj, method, vargs, kwargs) ==
    CASE adapter = "marshal" -> marshal_dumps(Envelope(obj, method, vargs, kwargs))
      [] adapter = "json" -> json_dumps(reg, PyDict((KS("object") :> obj) @@ (KS("method") :> method) @@ (KS("params") :> vargs) @@ (KS("kwargs") :> kwargs)))
      [] adapter = "msgpack" -> msgpack_pack(reg, Envelope(obj, method, vargs, kwargs), FALSE)

\* vargs = recreate_classes(vargs); kwargs = recreate_classes(kwargs); return obj, method, vargs, kwargs
RecreateCall(reg, obj, method, vargs, kwargs) ==
    Then(recreate_classes(reg, vargs), LAMBDA new_vargs :
        Then(recreate_classes(reg, kwargs), LAMBDA new_kwargs : Ok(Envelope(obj, method, new_vargs, new_kwargs))))

MarshalLoadsCall(reg, data) ==
    LET four == UnpackFour(marshal_loads(data))
    IN  IF IsOk(four) THEN RecreateCall(reg, four.val[1], four.val[2], four.val[3], four.val[4]) ELSE four

JsonLoadsCall(reg, data) ==
    LET d == json_loads(data)
    IN  IF d.k # "dict" THEN Raise("TypeError")
        ELSE IF \E key \in {KS("params"), KS("kwargs"), KS("object"), KS("method")} : key \notin DOMAIN d.d THEN Raise("KeyError")
        ELSE RecreateCall(reg, d.d[KS("object")], d.d[KS("method")], d.d[KS("params")], d.d[KS("kwargs")])

\* msgpack.unpackb(data, encoding="utf-8", object_hook=self.object_hook): no ext_hook
MsgpackLoadsCall(reg, data) ==
    Then(msgpack_unpack(reg, data, FALSE), LAMBDA unpacked :
        Then(UnpackFour(unpacked), LAMBDA four : Ok(PyTuple(four))))

loadsCall(adapter, reg, data) ==
    CASE adapter = "marshal" -> MarshalLoadsCall(reg, data)
      [] adapter = "json" -> JsonLoadsCall(reg, data)
      [] adapter = "msgpack" -> MsgpackLoadsCall(reg, data)

---------------------------------------------------------------------------
(* serializeData / deserializeData and the compression wrapper. The length *)
(* of an encoded message and the length zlib compresses it to are decided  *)
(* by the libraries: they are inputs of the operation.                     *)

SmallPayloadLimit == 200

\* the bytes of a message: what they encode and how many they are
Bytes(doc, n) == [body |-> doc, len |-> n]
zlib_compress(data, z) == [body |-> [of |-> data, z |-> "deflate"], len |-> z]
zlib_decompress(data) == IF "z" \in DOMAIN data.body THEN Ok(data.body.of) ELSE Raise("zlib.error")

compressdata_not_strict(data, compress, z) ==
    IF ~compress \/ data.len < SmallPayloadLimit THEN [data |-> data, compressed |-> FALSE]
    ELSE IF z <= data.len THEN [data |-> zlib_compress(data, z), compressed |-> TRUE]
    ELSE [data |-> data, compressed |-> FALSE]

\* SerializerBase.__compressdata; z is len(zlib.compress(data))
compressdata(data, compress, z) ==
    IF ~compress \/ data.len < SmallPayloadLimit THEN [data |-> data, compressed |-> FALSE]
    ELSE IF z < data.len THEN [data |-> zlib_compress(data, z), compressed |-> TRUE]
    ELSE [data |-> data, compressed |-> FALSE]

\* n is len(self.dumps(data))
serializeData(adapter, reg, data, compress, n, z) ==
    Then(dumps(adapter, reg, data), LAMBDA dumped : Ok(compressdata(Bytes(dumped, n), compress, z)))

deserializeData(adapter, reg, data, compressed) ==
    Then(IF compressed THEN zlib_decompress(data) ELSE Ok(data), LAMBDA plain : loads(adapter, reg, plain.body))

---------------------------------------------------------------------------
(* The values handed to the adapters *)

TheThing == PyObj("Thing", <<>>, K_val :> Small(1))
TheOpaque == PyObj("Opaque", <<>>, EmptyMap)
TheError == PyObj("ProtocolError", <<KS("bad request")>>, ExcAttrs)
\* 2^64 and -(2^63 + 1): the nearest integers msgpack has no format for
BigInts == { PyInt(FALSE, <<1, 8, 4, 4, 6, 7, 4, 4, 0, 7, 3, 7, 0, 9, 5, 5, 1, 6, 1, 6>>), PyInt(TRUE, <<9, 2, 2, 3, 3, 7, 2, 0, 3, 6, 8, 5, 4, 7, 7, 5, 8, 0, 9>>) }
TheComplex == PyComplex(DLit(<<"3.0">>), DLit(<<"4.0">>))
\* days since the epoch of 2020-01-01, 2200-01-01, 2300-01-01 and 3100-01-01
EpochDays == {18262, 84006, 120530, 412724}
DateTimes == { PyDateTime(d, s, us, FALSE) : d \in EpochDays, s \in {0, 45296}, us \in 0..MaxMicro } \cup { PyDateTime(18262, 0, 0, TRUE) }
Dates == { PyDate(d + EpochOrdinal) : d \in EpochDays }
ExtValues == {TheComplex} \cup BigInts \cup DateTimes \cup Dates

Leaves ==
    { PyNone, PyBool(TRUE), Small(1), PyFloat(<<"1.5">>), KS("a"), PyBytes(<<"a">>), PyList(<<>>),
      TheThing, TheOpaque, TheError, TheComplex, PyDateTime(18262, 0, 1, FALSE), PyDateTime(18262, 0, 0, TRUE), PyDate(737425) }
    \cup BigInts

\* a value inside each kind of container
Nest(v) ==
    { PyList(<<v>>), PyTuple(<<v>>), PyDict(KS("k") :> v), PyDict(Small(1) :> v) }
    \cup (IF Hashable(v) THEN { PySet({v}) } ELSE {})

RECURSIVE ValuesOfDepth(_)
ValuesOfDepth(n) == IF n = 0 THEN Leaves ELSE UNION { Nest(v) : v \in ValuesOfDepth(n - 1) }
Values == UNION { ValuesOfDepth(n) : n \in 0..MaxDepth }

PayloadLengths == (SmallPayloadLimit - 1)..(SmallPayloadLimit + MaxSlack)
CompressedLengths == (SmallPayloadLimit - 2)..(SmallPayloadLimit + MaxSlack + 1)

---------------------------------------------------------------------------
(* The adapter operations as calls *)

\* loads(dumps(v))
RoundTrip(adapter, v) ==
    /\ CallerReady
    /\ \E dumped \in {dumps(adapter, c2d, v)} :
            call' = [v |-> v, out |-> Then(dumped, LAMBDA data : loads(adapter, d2c, data)),
                     op |-> "loads_dumps", adapter |-> adapter, dumped |-> dumped]
    /\ UNCHANGED <<c2d, d2c, serpent, rd, wlog>>

\* loadsCall(dumpsCall(obj, method, vargs, kwargs)), next to loads(dumps(vargs)) and loads(dumps(kwargs))
CallRoundTrip(adapter, vargs, kwargs) ==
    /\ CallerReady
    /\ \E sent \in {dumpsCall(adapter, c2d, KS("obj_1"), KS("method"), vargs, kwargs)},
          plain \in {[x \in {vargs, kwargs} |-> Then(dumps(adapter, c2d, x), LAMBDA data : loads(adapter, d2c, data))]} :
            call' = [out |-> Then(sent, LAMBDA data : loadsCall(adapter, d2c, data)),
                     op |-> "loadsCall_dumpsCall", adapter |-> adapter, vargs |-> vargs, kwargs |-> kwargs, dumped |-> sent,
                     plain_vargs |-> plain[vargs], plain_kwargs |-> plain[kwargs]]
    /\ UNCHANGED <<c2d, d2c, serpent, rd, wlog>>

\* deserializeData(*serializeData(v, compress)), next to dumps(v) and loads(dumps(v))
SerializeData(adapter, v, compress, n, z) ==
    /\ CallerReady
    /\ \E sent \in {serializeData(adapter, c2d, v, compress, n, z)}, dumped \in {dumps(adapter, c2d, v)} :
            call' = [v |-> v, out |-> sent, op |-> "serializeData", adapter |-> adapter, z |-> z, compress |-> compress,
                     dumped |-> Then(dumped, LAMBDA data : Ok(Bytes(data, n))),
                     plain |-> Then(dumped, LAMBDA data : loads(adapter, d2c, data)),
                     back |-> Then(sent, LAMBDA msg : deserializeData(adapter, d2c, msg.data, msg.compressed))]
    /\ UNCHANGED <<c2d, d2c, serpent, rd, wlog>>

\* ext_hook applied to the ExtType that default makes of v
ExtRoundTrip(v) ==
    /\ CallerReady
    /\ \E ext \in {msgpack_default(c2d, v)} :
            call' = [v |-> v, out |-> Then(ext, LAMBDA made : ext_hook(made.code, made.data)),
                     op |-> "ext_hook_default", ext |-> ext]
    /\ UNCHANGED <<c2d, d2c, serpent, rd, wlog>>

\* ext_hook applied to any tag and payload
ExtDecode(code, data) ==
    /\ CallerReady
    /\ call' = [data |-> data, out |-> ext_hook(code, data), op |-> "ext_hook", code |-> code]
    /\ UNCHANGED <<c2d, d2c, serpent, rd, wlog>>

ExtCodes == (ExtComplex - 1)..(ExtDate + 1)
ExtPayloads == { msgpack_default(<<>>, v).val.data : v \in {TheComplex, PyDateTime(18262, 0, 1, FALSE), PyDate(737425)} \cup BigInts }

NextCodec ==
    \/ register_class_to_dict("Thing", "thing_to_dict", TRUE)
    \/ unregister_class_to_dict("Thing")
    \/ register_dict_to_class(ThingName, "dict_to_thing")
    \/ unregister_dict_to_class(ThingName)
    \/ \E adapter \in Adapters, v \in Values : RoundTrip(adapter, v)
    \/ \E adapter \in Adapters, v \in Leaves : CallRoundTrip(adapter, PyTuple(<<v>>), PyDict(KS("k") :> v))
    \/ \E adapter \in Adapters, v \in {KS("a"), PyTuple(<<TheThing>>), TheOpaque}, compress \in BOOLEAN, n \in PayloadLengths, z \in CompressedLengths :
            SerializeData(adapter, v, compress, n, z)
    \/ \E v \in ExtValues : ExtRoundTrip(v)
    \/ \E code \in ExtCodes, data \in ExtPayloads : ExtDecode(code, data)

SpecCodec == Init /\ [][NextCodec]_vars

---------------------------------------------------------------------------
(* Claims about the adapters *)

\* the canonical-value grammar: null, boolean, number, text, byte-sequence,
\* ordered sequence, fixed-size tuple, mapping, and sets
RECURSIVE Canonical(_)
Canonical(v) ==
    CASE v.k \in {"none", "bool", "int", "float", "str", "bytes"} -> TRUE
      [] v.k \in {"list", "tuple"} -> \A i \in 1..Len(v.items) : Canonical(v.items[i])
      [] v.k = "set" -> \A x \in v.elems : Canonical(x)
      [] v.k = "dict" -> \A x \in DOMAIN v.d : Canonical(x) /\ Canonical(v.d[x])
      [] OTHER -> FALSE

\* v with every set replaced by an ordered sequence of the same elements
RECURSIVE SetsAsSequences(_)
SetsAsSequences(v) ==
    CASE v.k = "set" -> PyList(TupleOfSet({SetsAsSequences(x) : x \in v.elems}))
      [] v.k \in {"list", "tuple"} -> [v EXCEPT !.items = [i \in 1..Len(v.items) |-> SetsAsSequences(v.items[i])]]
      [] v.k = "dict" -> PyDict([x \in DOMAIN v.d |-> SetsAsSequences(v.d[x])])
      [] OTHER -> v

\* C4: for every adapter loads(dumps(v)) = v for every canonical value v,
\* except that under JSON and msgpack a set comes back as an ordered sequence
\* of the same elements; marshal returns sets as sets.
C4_CanonicalRoundTrip ==
    (call.op = "loads_dumps" /\ Canonical(call.v)) =>
        call.out = Ok(IF call.adapter \in {"json", "msgpack"} THEN SetsAsSequences(call.v) ELSE call.v)

\* the instance x alone or inside a sequence, a tuple or a mapping
Around(x) == { x, PyList(<<x>>), PyTuple(<<x>>), PyDict(KS("k") :> x) }
ThingConvertersRegistered == C2DHas(c2d, "Thing") /\ C2DGet(c2d, "Thing") = "thing_to_dict" /\ ThingName \in DOMAIN d2c /\ d2c[ThingName] = "dict_to_thing"

\* C5: with an outbound converter registered for the class of x and the
\* matching inbound converter registered under the name it emits,
\* loads(dumps(v)) returns x again, for v = x and for x inside a sequence, a
\* tuple or a mapping, under every adapter.
C5_CustomClassRoundTrip ==
    (call.op = "loads_dumps" /\ ThingConvertersRegistered /\ call.v \in Around(TheThing)) =>
        (IsOk(call.out) /\ call.out.val \in Around(TheThing) /\ (call.v = TheThing => call.out.val = TheThing))

\* C7: dumps of a value that has no canonical form and no registered converter,
\* alone or inside a container, fails with SerializeError under every adapter.
C7_UnserializableFails ==
    (call.op = "loads_dumps" /\ call.v \in Around(TheOpaque)) => call.dumped = Raise("SerializeError")

\* C10: loadsCall(dumpsCall(...)) returns the four parts, with vargs and kwargs
\* equal to what loads(dumps(vargs)) and loads(dumps(kwargs)) return.
C10_CallEnvelope ==
    (call.op = "loadsCall_dumpsCall" /\ IsOk(call.plain_vargs) /\ IsOk(call.plain_kwargs)) =>
        /\ IsOk(call.out)
        /\ Len(call.out.val.items) = 4
        /\ call.out.val.items[3] = call.plain_vargs.val
        /\ call.out.val.items[4] = call.plain_kwargs.val

\* C8: serializeData(v, compress) returns (dumps(v), False) when compress is
\* false or dumps(v) is shorter than 200 bytes; otherwise (compressed, True)
\* exactly when the compressed form is strictly shorter, else (dumps(v), False).
\* The bytes returned are never longer than dumps(v), the flag is True exactly
\* when they are compressed, and deserializeData of them equals loads(dumps(v)).
C8_SerializeData ==
    call.op = "serializeData" =>
        IF ~IsOk(call.dumped) THEN call.out = call.dumped
        ELSE /\ IsOk(call.out)
             /\ (~call.compress \/ call.dumped.val.len < 200) => call.out.val = [data |-> call.dumped.val, compressed |-> FALSE]
             /\ (call.compress /\ call.dumped.val.len >= 200) =>
                    /\ call.out.val.compressed <=> call.z < call.dumped.val.len
                    /\ call.out.val.compressed => (call.out.val.data.len = call.z /\ zlib_decompress(call.out.val.data) = Ok(call.dumped.val))
                    /\ ~call.out.val.compressed => call.out.val.data = call.dumped.val
             /\ call.out.val.data.len <= call.dumped.val.len
             /\ call.out.val.compressed <=> IsOk(zlib_decompress(call.out.val.data))
             /\ call.back = call.plain

\* a message of 200 bytes or more that zlib made shorter, sent compressed and read back
C8_Witness ==
    /\ call.op = "serializeData"
    /\ IsOk(call.out) /\ call.out.val.compressed
    /\ call.dumped.val.len >= 200 /\ call.out.val.data.len < call.dumped.val.len
    /\ IsOk(call.back) /\ call.back = call.plain

\* the four extended kinds and the tag of each
ExtendedValue(v) ==
    \/ v.k \in {"complex", "date"}
    \/ v.k = "int" /\ ~NativeInt(v)
    \/ v.k = "datetime" /\ ~v.tz
TagOf(v) ==
    CASE v.k = "complex" -> 48
      [] v.k = "int" -> 49
      [] v.k = "datetime" -> 50
      [] v.k = "date" -> 51

\* C9 as stated: each extended value is encoded under its own tag and ext_hook
\* returns a value equal to the original; a tag outside 0x30..0x33 fails with
\* SerializeError.
C9_AsStated ==
    /\ (call.op = "ext_hook_default" /\ ExtendedValue(call.v)) =>
            (IsOk(call.ext) /\ call.ext.val.code = TagOf(call.v) /\ call.out = Ok(call.v))
    /\ (call.op = "ext_hook" /\ call.code \notin 48..51) => call.out = Raise("SerializeError")

\* the timestamp lies less than 2^33 seconds after the epoch
\* (days*86400 + sod = 128 * (days*675 + sod \div 128) + sod % 128)
BeforeTwoToThe33(v) == v.days * 675 + v.sod \div 128 < 2^26

\* C9: each extended value is encoded under its own tag (a timestamp under 0x32,
\* never 0x33); ext_hook returns the original complex number, big integer or
\* date, and the original naive timestamp when it lies less than 2^33 seconds
\* after the epoch; a later timestamp comes back as a naive timestamp rounded
\* to the double's resolution; a tag outside 0x30..0x33 fails with
\* SerializeError.
C9_ExtensionCodec ==
    /\ (call.op = "ext_hook_default" /\ ExtendedValue(call.v)) =>
            /\ IsOk(call.ext) /\ call.ext.val.code = TagOf(call.v)
            /\ IsOk(call.out) /\ call.out.val.k = call.v.k
            /\ (call.v.k # "datetime" \/ BeforeTwoToThe33(call.v)) => call.out = Ok(call.v)
    /\ (call.op = "ext_hook" /\ call.code \notin 48..51) => call.out = Raise("SerializeError")

\* a timestamp of the year 2200 with microseconds, returned as it was
C9_Witness ==
    /\ call.op = "ext_hook_default"
    /\ call.v.k = "datetime" /\ call.v.days = 84006 /\ call.v.us = MaxMicro
    /\ call.ext.val.code = 50
    /\ call.out = Ok(call.v)

---------------------------------------------------------------------------
(* Outbound conversion under every state of the outbound registry, with    *)
(* the serpent adapter available or not                                    *)

\* the classes and converters an application registers
OutboundClasses == {"Thing", "object", "list"}
OutboundConverters == {"vars_to_dict", "type_to_dict"}

\* import serpent succeeded at module load, or raised ImportError
InitOutbound ==
    /\ c2d = <<>>
    /\ d2c = [n \in {} |-> "echo"]
    /\ \E avail \in BOOLEAN : serpent = [avail |-> avail, classes |-> NoSerpentClasses]
    /\ call = [op |-> "none"]
    /\ rd = Idle
    /\ wlog = <<>>

NextOutbound ==
    \/ \E clazz \in OutboundClasses, conv \in OutboundConverters, serpent_too \in BOOLEAN : register_class_to_dict(clazz, conv, serpent_too)
    \/ \E clazz \in OutboundClasses : unregister_class_to_dict(clazz)
    \/ \E obj \in Objects : ClassToDict(obj)

SpecOutbound == InitOutbound /\ [][NextOutbound]_vars

OutboundCall == call.op = "class_to_dict"

\* C11: in every state of the outbound registry, class_to_dict of a value whose
\* type is exactly set, dict, tuple or list raises ValueError and returns no record
C11_BareContainers ==
    OutboundCall /\ TypeOf(call.obj) \in {"set", "dict", "tuple", "list"} => call.out = Raise("ValueError")

\* the entries of the registry that obj is an instance of
Matching(obj) == {i \in 1..Len(c2d) : IsInstance(obj, c2d[i].clazz)}
\* class_to_dict with nothing registered: the default steps
DefaultSteps(obj) == class_to_dict(<<>>, obj).out

\* The statement with the lookup by type identity: a converter is used exactly
\* when one is registered for the concrete type of obj, the first registered of
\* several matching entries is the one used, every other value goes through
\* the default steps
C12_AsStated ==
    OutboundCall =>
        /\ C2DHas(c2d, TypeOf(call.obj)) => \E i \in Matching(call.obj) : call.out = ApplyC2D(c2d[i].conv, call.obj)
        /\ Matching(call.obj) # {} => \E i \in Matching(call.obj) : (\A j \in Matching(call.obj) : i <= j) /\ call.out = ApplyC2D(c2d[i].conv, call.obj)
        /\ ~C2DHas(c2d, TypeOf(call.obj)) => call.out = DefaultSteps(call.obj)

\* C12: class_to_dict(obj) uses a registered converter exactly when obj is an
\* instance of a registered class (the class itself or a subclass of it); of
\* several matching entries the one registered first is used; a value that is
\* an instance of no registered class goes through the default steps
C12_FirstInstanceMatch ==
    OutboundCall =>
        /\ Matching(call.obj) # {} => \E i \in Matching(call.obj) : (\A j \in Matching(call.obj) : i <= j) /\ call.out = ApplyC2D(c2d[i].conv, call.obj)
        /\ Matching(call.obj) = {} => call.out = DefaultSteps(call.obj)

\* a SubThing converted by the converter of object, registered before the
\* converter of Thing, with no converter registered for SubThing itself
C12_Witness ==
    /\ OutboundCall /\ TypeOf(call.obj) = "SubThing"
    /\ Len(c2d) >= 2 /\ c2d[1].clazz = "object" /\ c2d[2].clazz = "Thing" /\ c2d[1].conv # c2d[2].conv
    /\ call.out = ApplyC2D(c2d[1].conv, call.obj) /\ call.out # ApplyC2D(c2d[2].conv, call.obj)
    /\ call.out # DefaultSteps(call.obj)

\* a record that holds a live daemon handle, as an entry or inside its attributes
HoldsLiveDaemon(rec) ==
    /\ rec.k = "dict"
    /\ \E x \in DOMAIN rec.d :
            \/ rec.d[x] = LiveDaemon
            \/ rec.d[x].k = "dict" /\ \E y \in DOMAIN rec.d[x].d : rec.d[x].d[y] = LiveDaemon

\* C13: for every object with a _pyroDaemon back-reference, in every registry
\* state, class_to_dict sets the back-reference to None before the record is
\* produced: the record it returns holds no live daemon handle
C13_DaemonCleared ==
    OutboundCall /\ HasAttr(call.obj, K_daemon) /\ IsOk(call.out) =>
        /\ call.after.attrs[K_daemon] = PyNone
        /\ ~HoldsLiveDaemon(call.out.val)

\* the outbound registry and serpent's class registry hold the same classes
MirrorConsistent == \A clazz \in OutboundClasses : C2DHas(c2d, clazz) <=> clazz \in DOMAIN serpent.classes

\* The statement for every sequence of calls, those with serpent_too false
\* included: with serpent available the two registries hold the same classes,
\* without it no call raises and serpent's registry is never written
C14_AsStated ==
    /\ serpent.avail => MirrorConsistent
    /\ ~serpent.avail =>
            /\ serpent.classes = NoSerpentClasses
            /\ call.op \in {"register_class_to_dict", "unregister_class_to_dict"} => IsOk(call.out)

\* what one call does to the two registries
MirroredStep ==
    \A clazz \in OutboundClasses :
        /\ \A conv \in OutboundConverters :
            /\ register_class_to_dict(clazz, conv, TRUE) /\ serpent.avail /\ MirrorConsistent =>
                    MirrorConsistent' /\ C2DGet(c2d', clazz) = conv /\ clazz \in DOMAIN serpent'.classes /\ serpent'.classes[clazz] = conv
            /\ register_class_to_dict(clazz, conv, TRUE) /\ ~serpent.avail =>
                    IsOk(call'.out) /\ serpent' = serpent /\ d2c' = d2c /\ C2DGet(c2d', clazz) = conv
            /\ register_class_to_dict(clazz, conv, FALSE) =>
                    IsOk(call'.out) /\ serpent' = serpent /\ d2c' = d2c /\ C2DGet(c2d', clazz) = conv
        /\ unregister_class_to_dict(clazz) /\ serpent.avail /\ MirrorConsistent =>
                MirrorConsistent' /\ ~C2DHas(c2d', clazz) /\ clazz \notin DOMAIN serpent'.classes
        /\ unregister_class_to_dict(clazz) /\ ~serpent.avail =>
                IsOk(call'.out) /\ serpent' = serpent /\ d2c' = d2c /\ ~C2DHas(c2d', clazz)

\* C14: with serpent available, register_class_to_dict calls made with
\* serpent_too true and unregister_class_to_dict calls keep the outbound
\* registry and serpent's class registry on the same classes; a call with
\* serpent_too false writes the outbound registry alone; with serpent
\* unavailable every call completes without raising and changes only the
\* outbound registry
C14_RegistriesMirrored == [][MirroredStep]_vars

\* serpent available, a class registered and mirrored, another unregistered
\* from both registries
C14_Witness ==
    /\ serpent.avail /\ call.op = "unregister_class_to_dict" /\ IsOk(call.out)
    /\ MirrorConsistent
    /\ Len(c2d) = 1 /\ c2d[1].clazz \in DOMAIN serpent.classes /\ serpent.classes[c2d[1].clazz] = c2d[1].conv

====
